---- MODULE Spec2Model ----
(***************************************************************************)
(* Verification model of unisys: the resource snapshot store               *)
(* (internal/resourcecollecter), the collection loop, and the bootstrap    *)
(* that drives the goroutine manager (cmd/operation.go).                   *)
(*                                                                         *)
(* Go slices are modelled as [arr, len] headers over a heap of backing     *)
(* arrays, so that aliasing between a caller's buffer, the global          *)
(* snapshot and readers' copies is something a check can observe.          *)
(***************************************************************************)
EXTENDS Integers, Sequences, FiniteSets, TLC

\* ---------------------------------------------------------------- bounds
\* most interfaces a sampled traffic list holds
MaxIf == 1
\* publishes the store's caller makes
MaxPub == 2
\* collection cycles the loop runs
MaxCycles == 2
\* AddTask calls made on one goroutine manager
MaxRegs == 4
\* StopAll calls made on one goroutine manager
MaxStops == 2

\* the goroutines that call GetGlobalResource concurrently
Readers == {"r1", "r2"}

\* ------------------------------------------------------------ data model
ScalarFields == {"CPUUsageRate", "MemUsageRate", "DiskUsageRate"}
FieldOrder == <<"CPUUsageRate", "MemUsageRate", "DiskUsageRate", "NetworkTraffic">>

\* heap addresses of slice backing arrays; 0 is "no array" (nil / empty slice)
Addr == 1..(4 + Cardinality(Readers))

NilSlice == [arr |-> 0, len |-> 0]

\* the zero value of a Resource (var GlobalResource Resource; var res Resource)
ZeroResource ==
    [CPUUsageRate |-> 0, MemUsageRate |-> 0, DiskUsageRate |-> 0,
     NetworkTraffic |-> NilSlice]

\* resource.NetworkTraffic{Interface, InboundBps, OutboundBps}
Traffic(i, v) == [Interface |-> i, InboundBps |-> v, OutboundBps |-> v]
ZeroTraffic == Traffic(0, 0)
\* the value a mutating holder writes into a field or element it owns:
\* different from every sample
Dirty == MaxPub + 1

EmptyHeap == [a \in Addr |-> <<>>]

\* the elements a slice header denotes
Elems(h, sl) == IF sl.arr = 0 THEN <<>> ELSE SubSeq(h[sl.arr], 1, sl.len)
Cap(h, sl) == IF sl.arr = 0 THEN 0 ELSE Len(h[sl.arr])

\* the value of a Resource as a reader of its fields sees it
View(h, r) ==
    [CPUUsageRate |-> r.CPUUsageRate, MemUsageRate |-> r.MemUsageRate,
     DiskUsageRate |-> r.DiskUsageRate, NetworkTraffic |-> Elems(h, r.NetworkTraffic)]
ZeroView == View(EmptyHeap, ZeroResource)

\* a sampled snapshot value. Every field carries the tag g of the sample (the
\* number of the publish it is the argument of), so that a value that is read
\* can be attributed to the publish that wrote it
Snap(g, n) ==
    [CPUUsageRate |-> g, MemUsageRate |-> g, DiskUsageRate |-> g,
     NetworkTraffic |-> [i \in 1..n |-> Traffic(i, g)]]

\* lowest free address (an unreferenced array has been collected to <<>>)
FreeAddr(h) == CHOOSE a \in Addr : h[a] = <<>> /\ \A b \in Addr : h[b] = <<>> => a <= b

\* make([]T, len(elems), cap) filled with elems: the new heap and the header
NewArray(h, elems, cap) ==
    IF cap = 0 THEN [heap |-> h, slice |-> NilSlice]
    ELSE LET a == FreeAddr(h) IN
         [heap |-> [h EXCEPT ![a] = elems \o [i \in 1..(cap - Len(elems)) |-> ZeroTraffic]],
          slice |-> [arr |-> a, len |-> Len(elems)]]

\* garbage collection: arrays no root refers to are freed
Collect(h, roots) == [a \in Addr |-> IF a \in roots THEN h[a] ELSE <<>>]

VARIABLES
    heap,            \* backing arrays of all NetworkTraffic slices
    GlobalResource,  \* var GlobalResource Resource
    mutexW,          \* GlobalResMutex: TRUE while the write lock is held
    mutexR,          \* GlobalResMutex: the readers holding the read lock
    res,             \* the caller's working buffer (*r of SetGlobalResource)
    pcW,             \* position inside SetGlobalResource
    tmpW,            \* the composite literal SetGlobalResource builds
    wi,              \* next field of GlobalResource the assignment stores
    pcR,             \* per reader: position inside GetGlobalResource
    got,             \* per reader: the Resource being returned / held
    ri,              \* per reader: next field the return literal reads
    ret,             \* history: per reader, the value GetGlobalResource returned
    fresh,           \* history: the reader's call in progress began after the last
                     \*   publish returned, and no publish was called since
    expect,          \* history: per reader, the value of the last publish argument if
                     \*   the whole call fell between two publishes (else what it returned)
    pubs,            \* history: values of the arguments of all publish calls
    lastPub,         \* history: value of the argument of the last returned publish
    prevPub,         \* history: value of the argument of the returned publish before it
    npub             \* history: number of publishes that have returned

lockVars == <<mutexW, mutexR>>
writerVars == <<pcW, tmpW, wi>>
readerVars == <<pcR, got, ri>>
readerHist == <<ret, fresh, expect>>
pubHist == <<pubs, lastPub, prevPub, npub>>
storeVars == <<heap, GlobalResource, res, lockVars, writerVars, readerVars,
               readerHist, pubHist>>

\* ---------------------------------------------------- the collection loop
VARIABLES
    pcL,             \* position of CollectResource
    timeout,         \* var timeout time.Duration, in seconds
    li,              \* next sampler goroutine the cycle launches
    wg,              \* var wg sync.WaitGroup: its counter
    threads,         \* the sampler goroutines alive: [cyc, kind, pc]
    cancelled,       \* ctx is cancelled (ctx.Done() is closed)
    enteredCancelled,\* ctx was already cancelled when the wait in progress began
    cycle,           \* history: number of collection cycles started
    outcome,         \* history: per sampler of the current cycle, "none", "ok" or "err"
    sampled,         \* history: per sampler, the value it computed in the current cycle
    waitCancelled,   \* history: the wait has reported WaitCancel
    exitAt,          \* history: cycle and npub when the wait reported WaitCancel
    cancelAt         \* history: pcL and cycle when ctx was cancelled

loopVars == <<pcL, timeout, li, wg, threads, cancelled, enteredCancelled>>
loopHist == <<cycle, outcome, sampled, waitCancelled, exitAt, cancelAt>>

\* ------------------------------------- the bootstrap and the task manager
VARIABLES
    pcB,             \* position of unisysOperation.start
    subscribed,      \* sigChan is registered with signal.Notify
    sigChan,         \* chan os.Signal of capacity 1
    tasks,           \* the goroutine manager's registry: <<[name, run], ...>>
    lastErr,         \* what the last AddTask call returned
    gmCancelled,     \* the manager's shared context is cancelled
    pcS,             \* position of the task "server" (Server.Run)
    listener,        \* the goroutine running ListenAndServe / ListenAndServeTLS
    nreg,            \* history: number of AddTask calls
    firstRun,        \* history: per name, the run function registered first
    lastCall,        \* history: the last AddTask call, and whether its name was taken
    runs,            \* history: per name, how often its run function was invoked
    handled          \* history: number of panicHandler invocations

regVars == <<tasks, lastErr, nreg, firstRun, lastCall>>
bootVars == <<pcB, subscribed, sigChan, gmCancelled, pcS, listener, runs, handled>>

\* ------------------------------- the goroutine manager and its tasks at large
VARIABLES
    pcM,             \* position of the manager's caller: "setup", "started",
                     \*   "stopping" (inside StopAll) or "stopped"
    tstate,          \* per task name: "none", "running" or "exited"
    seen,            \* per task: its last look at ctx.Done() found it closed
    stopErr,         \* what the last StopAll call returned
    nstops,          \* history: number of StopAll calls that have returned
    raised,          \* history: per task, the value its run function panicked with
    faultLog,        \* history: the calls of PanicHandler, <<[task, value], ...>>
    quietStop        \* history: the last StopAll call was made after an earlier one
                     \*   had returned and every task had exited

supVars == <<pcM, tstate, seen, stopErr, nstops, raised, faultLog, quietStop>>

\* ------------------------------------------------- the time the loop takes
VARIABLES
    waited,          \* seconds the loop has spent in its wait, and the cycle it follows
    slept,           \* seconds the samplers of a cycle have slept, and the cycle
    late             \* seconds passed since ctx was cancelled with the loop running

timeVars == <<waited, slept, late>>

\* ------------------------------------------------------ the configuration
VARIABLES
    Conf,            \* var Conf Config: its numeric settings
    yaml,            \* the settings conf/unisys.yaml held when it was decoded:
                     \*   per key <<>> (key absent) or <<value>>
    loadErr,         \* what LoadConfig returned: "none" before the call
    pcC              \* "init" before LoadConfig is called, "loaded" after

confVars == <<Conf, yaml, loadErr, pcC>>

vars == <<storeVars, loopVars, loopHist, regVars, bootVars, supVars, timeVars, confVars>>

\* what the store's own operations never touch
outsideStore == <<loopVars, loopHist, regVars, bootVars, supVars, timeVars, confVars>>

\* every address some live slice header refers to
RootsOf(g, r, t, c) ==
    ({g.NetworkTraffic.arr, r.NetworkTraffic.arr, t.NetworkTraffic.arr}
        \cup {c[x].NetworkTraffic.arr : x \in Readers}) \ {0}

\* the sampler goroutines of a cycle, in launch order, and the field each writes
KindOrder == <<"cpu", "mem", "disk", "net">>
Kinds == {KindOrder[i] : i \in 1..Len(KindOrder)}

\* the steady-state period: timeout = 3 * time.Second
Period == 3

\* what a sampler returns with an error: 0.0, or a nil traffic list
ZeroOf(kind) == IF kind = "net" THEN <<>> ELSE 0
NoSamples == [k \in Kinds |-> ZeroOf(k)]

LoopInit ==
    /\ pcL = "idle"
    /\ timeout = 0
    /\ li = 0
    /\ wg = 0
    /\ threads = {}
    /\ cancelled = FALSE
    /\ enteredCancelled = FALSE
    /\ cycle = 0
    /\ outcome = [k \in Kinds |-> "none"]
    /\ sampled = NoSamples
    /\ waitCancelled = FALSE
    /\ exitAt = [cycle |-> 0, npub |-> 0]
    /\ cancelAt = [pc |-> "never", cycle |-> 0]

\* the names and run functions AddTask is called with
TaskNames == {"server", "collector", "reporter"}
RunFns == {"Server.Run", "ResourceCollecter.CollectResource"}

BootInit ==
    /\ pcB = "begin"
    /\ subscribed = FALSE
    /\ sigChan = <<>>
    /\ tasks = <<>>
    /\ lastErr = "none"
    /\ gmCancelled = FALSE
    /\ pcS = "off"
    /\ listener = "off"
    /\ nreg = 0
    /\ firstRun = [n \in TaskNames |-> "none"]
    /\ lastCall = [name |-> "none", run |-> "none", taken |-> FALSE]
    /\ runs = [n \in TaskNames |-> 0]
    /\ handled = 0

TimeInit ==
    /\ waited = [cyc |-> 0, t |-> 0]
    /\ slept = [cyc |-> 0, t |-> 0]
    /\ late = 0

\* the numeric settings of Config
Settings == {"Port", "ShutdownTimeout", "MaxLogFileSize", "MaxLogFileBackup",
             "MaxLogFileAge"}

\* the range and default the comments of Config and of unisys.yaml give a setting
Documented ==
    [Port             |-> [min |-> 1, max |-> 65535, def |-> 8443],
     ShutdownTimeout  |-> [min |-> 1, max |-> 20, def |-> 5],
     MaxLogFileSize   |-> [min |-> 1, max |-> 1000, def |-> 100],
     MaxLogFileBackup |-> [min |-> 1, max |-> 100, def |-> 10],
     MaxLogFileAge    |-> [min |-> 1, max |-> 365, def |-> 90]]

\* func init(): the values Conf holds before any file is read
Defaults ==
    [Port |-> 8443, ShutdownTimeout |-> 5, MaxLogFileSize |-> 100,
     MaxLogFileBackup |-> 10, MaxLogFileAge |-> 90]

\* the values a key of the file is given here: around both ends of its range
YamlValues(f) == {-1, 0, 1, Documented[f].max, Documented[f].max + 1}

\* the files: every key absent or set to one of its values
Yamls ==
    {y \in [Settings -> {<<>>} \cup {<<v>> : v \in UNION {YamlValues(f) : f \in Settings}}] :
        \A f \in Settings : IF y[f] = <<>> THEN TRUE ELSE y[f][1] \in YamlValues(f)}

NoYaml == [f \in Settings |-> <<>>]

ConfInit ==
    /\ Conf = Defaults
    /\ yaml = NoYaml
    /\ loadErr = "none"
    /\ pcC = "init"

\* decoder.Decode(&Conf): a key of the file overwrites the field, a field
\* without a key keeps its value
Decode(c, y) == [f \in Settings |-> IF y[f] = <<>> THEN c[f] ELSE y[f][1]]

\* the validation of LoadConfig: a value outside the tested range is replaced
Validate(c) ==
    [Port             |-> IF c.Port < 0 \/ c.Port > 65535 THEN 8443 ELSE c.Port,
     ShutdownTimeout  |-> IF c.ShutdownTimeout < 0 \/ c.ShutdownTimeout > 20
                            THEN 5 ELSE c.ShutdownTimeout,
     MaxLogFileSize   |-> IF c.MaxLogFileSize < 1 \/ c.MaxLogFileSize > 1000
                            THEN 100 ELSE c.MaxLogFileSize,
     MaxLogFileBackup |-> IF c.MaxLogFileBackup < 1 \/ c.MaxLogFileBackup > 100
                            THEN 10 ELSE c.MaxLogFileBackup,
     MaxLogFileAge    |-> IF c.MaxLogFileAge < 1 \/ c.MaxLogFileAge > 365
                            THEN 90 ELSE c.MaxLogFileAge]

\* Config.LoadConfig: the file cannot be opened; or it is decoded with an
\* error, and what was decoded stays in Conf unvalidated; or it is decoded,
\* the settings are validated and nil is returned
LoadConfig ==
    /\ pcC = "init"
    /\ pcC' = "loaded"
    /\ \E opened \in BOOLEAN, parsed \in BOOLEAN, y \in Yamls :
          /\ IF ~opened
               THEN /\ loadErr' = "failed to open file"
                    /\ UNCHANGED <<Conf, yaml>>
               ELSE /\ yaml' = y
                    /\ IF parsed
                         THEN Conf' = Validate(Decode(Conf, y)) /\ loadErr' = "nil"
                         ELSE Conf' = Decode(Conf, y) /\ loadErr' = "failed to parse config"
    /\ UNCHANGED <<storeVars, loopVars, loopHist, regVars, bootVars, supVars, timeVars>>

\* the values a run function may panic with
FaultValues == {"e1", "e2"}

SupInit ==
    /\ pcM = "setup"
    /\ tstate = [n \in TaskNames |-> "none"]
    /\ seen = [n \in TaskNames |-> FALSE]
    /\ stopErr = "none"
    /\ nstops = 0
    /\ raised = [n \in TaskNames |-> "none"]
    /\ faultLog = <<>>
    /\ quietStop = FALSE

StoreInit ==
    /\ heap = EmptyHeap
    /\ GlobalResource = ZeroResource
    /\ mutexW = FALSE
    /\ mutexR = {}
    /\ res = ZeroResource
    /\ pcW = "idle"
    /\ tmpW = ZeroResource
    /\ wi = 0
    /\ pcR = [r \in Readers |-> "idle"]
    /\ got = [r \in Readers |-> ZeroResource]
    /\ ri = [r \in Readers |-> 0]
    /\ ret = [r \in Readers |-> ZeroView]
    /\ fresh = [r \in Readers |-> FALSE]
    /\ expect = [r \in Readers |-> ZeroView]
    /\ pubs = {}
    /\ lastPub = ZeroView
    /\ prevPub = ZeroView
    /\ npub = 0

\* ----------------------------------------------------- SetGlobalResource
\* the caller fills a new working buffer with its next sample, n interfaces
\* in an array of capacity c, and calls SetGlobalResource(&res)
SetCall ==
    /\ pcW = "idle"
    /\ npub < MaxPub
    /\ \E n \in 0..MaxIf : \E c \in {n, MaxIf} :
          LET s == Snap(npub + 1, n)
              a == NewArray(Collect(heap, RootsOf(GlobalResource, ZeroResource, tmpW, got)),
                            s.NetworkTraffic, c) IN
          /\ res' = [s EXCEPT !.NetworkTraffic = a.slice]
          /\ heap' = a.heap
          /\ pubs' = pubs \cup {s}
    /\ pcW' = "lock"
    /\ fresh' = [r \in Readers |-> FALSE]
    /\ UNCHANGED <<GlobalResource, mutexW, mutexR, tmpW, wi, pcR, got, ri,
                   ret, expect, lastPub, prevPub, npub>>
    /\ UNCHANGED outsideStore

\* SetGlobalResource without its GlobalResMutex.Lock()
SetLock_NoLock ==
    /\ pcW = "lock"
    /\ pcW' = "eval"
    /\ UNCHANGED <<heap, GlobalResource, res, mutexW, mutexR, tmpW, wi, pcR, got, ri,
                   ret, fresh, expect, pubs, lastPub, prevPub, npub>>
    /\ UNCHANGED outsideStore

\* GlobalResMutex.Lock()
SetLock ==
    /\ pcW = "lock"
    /\ ~mutexW
    /\ mutexR = {}
    /\ mutexW' = TRUE
    /\ pcW' = "eval"
    /\ UNCHANGED <<heap, GlobalResource, res, mutexR, tmpW, wi, pcR, got, ri,
                   ret, fresh, expect, pubs, lastPub, prevPub, npub>>
    /\ UNCHANGED outsideStore

\* append([]resource.NetworkTraffic{}, r.NetworkTraffic...)
CopyTraffic(h, sl) == NewArray(h, Elems(h, sl), sl.len)

\* SetGlobalResource storing r.NetworkTraffic itself instead of a copy
SetEval_Alias ==
    /\ pcW = "eval"
    /\ tmpW' = res
    /\ pcW' = "store"
    /\ wi' = 1
    /\ UNCHANGED <<heap, GlobalResource, res, mutexW, mutexR, pcR, got, ri, ret,
                   fresh, expect, pubs, lastPub, prevPub, npub>>
    /\ UNCHANGED outsideStore

\* Resource{CPUUsageRate: r.CPUUsageRate, ..., NetworkTraffic: append(...)}
SetEval ==
    /\ pcW = "eval"
    /\ LET c == CopyTraffic(heap, res.NetworkTraffic) IN
       /\ tmpW' = [res EXCEPT !.NetworkTraffic = c.slice]
       /\ heap' = c.heap
    /\ pcW' = "store"
    /\ wi' = 1
    /\ UNCHANGED <<GlobalResource, res, mutexW, mutexR, pcR, got, ri, ret,
                   fresh, expect, pubs, lastPub, prevPub, npub>>
    /\ UNCHANGED outsideStore

\* GlobalResource = <literal>: the struct is stored one field at a time
SetStore ==
    /\ pcW = "store"
    /\ GlobalResource' = [GlobalResource EXCEPT ![FieldOrder[wi]] = tmpW[FieldOrder[wi]]]
    /\ IF wi = Len(FieldOrder)
         THEN /\ pcW' = "unlock"
              /\ wi' = 0
              /\ tmpW' = ZeroResource
         ELSE /\ wi' = wi + 1
              /\ UNCHANGED <<pcW, tmpW>>
    /\ heap' = Collect(heap, RootsOf(GlobalResource', res, tmpW', got))
    /\ UNCHANGED <<res, mutexW, mutexR, pcR, got, ri, ret, fresh, expect,
                   pubs, lastPub, prevPub, npub>>
    /\ UNCHANGED outsideStore

\* defer GlobalResMutex.Unlock(), and the return
SetUnlock ==
    /\ pcW = "unlock"
    /\ mutexW' = FALSE
    /\ pcW' = "idle"
    /\ lastPub' = View(heap, res)
    /\ prevPub' = lastPub
    /\ npub' = npub + 1
    /\ UNCHANGED <<heap, GlobalResource, res, mutexR, tmpW, wi, pcR, got, ri,
                   ret, fresh, expect, pubs>>
    /\ UNCHANGED outsideStore

SetGlobalResource == SetLock \/ SetEval \/ SetStore \/ SetUnlock

\* ----------------------------------------------------- GetGlobalResource
GetCall(r) ==
    /\ pcR[r] = "idle"
    /\ pcR' = [pcR EXCEPT ![r] = "rlock"]
    /\ fresh' = [fresh EXCEPT ![r] = (pcW = "idle")]
    /\ UNCHANGED <<heap, GlobalResource, res, mutexW, mutexR, pcW, tmpW, wi,
                   got, ri, ret, expect, pubs, lastPub, prevPub, npub>>
    /\ UNCHANGED outsideStore

\* GlobalResMutex.RLock()
GetRLock(r) ==
    /\ pcR[r] = "rlock"
    /\ ~mutexW
    /\ mutexR' = mutexR \cup {r}
    /\ pcR' = [pcR EXCEPT ![r] = "read"]
    /\ ri' = [ri EXCEPT ![r] = 1]
    /\ UNCHANGED <<heap, GlobalResource, res, mutexW, pcW, tmpW, wi, got,
                   ret, fresh, expect, pubs, lastPub, prevPub, npub>>
    /\ UNCHANGED outsideStore

\* GetGlobalResource returning GlobalResource.NetworkTraffic itself instead of a copy
GetRead_Alias(r) ==
    /\ pcR[r] = "read"
    /\ LET f == FieldOrder[ri[r]] IN
       IF f \in ScalarFields
         THEN /\ got' = [got EXCEPT ![r][f] = GlobalResource[f]]
              /\ UNCHANGED heap
         ELSE /\ got' = [got EXCEPT ![r].NetworkTraffic = GlobalResource.NetworkTraffic]
              /\ UNCHANGED heap
    /\ IF ri[r] = Len(FieldOrder)
         THEN /\ pcR' = [pcR EXCEPT ![r] = "runlock"]
              /\ ri' = [ri EXCEPT ![r] = 0]
         ELSE /\ ri' = [ri EXCEPT ![r] = ri[r] + 1]
              /\ UNCHANGED pcR
    /\ UNCHANGED <<GlobalResource, res, mutexW, mutexR, pcW, tmpW, wi, ret,
                   fresh, expect, pubs, lastPub, prevPub, npub>>
    /\ UNCHANGED outsideStore

\* return Resource{CPUUsageRate: GlobalResource.CPUUsageRate, ...}: the
\* literal reads GlobalResource one field at a time
GetRead(r) ==
    /\ pcR[r] = "read"
    /\ LET f == FieldOrder[ri[r]] IN
       IF f \in ScalarFields
         THEN /\ got' = [got EXCEPT ![r][f] = GlobalResource[f]]
              /\ UNCHANGED heap
         ELSE LET c == CopyTraffic(heap, GlobalResource.NetworkTraffic) IN
              /\ got' = [got EXCEPT ![r].NetworkTraffic = c.slice]
              /\ heap' = c.heap
    /\ IF ri[r] = Len(FieldOrder)
         THEN /\ pcR' = [pcR EXCEPT ![r] = "runlock"]
              /\ ri' = [ri EXCEPT ![r] = 0]
         ELSE /\ ri' = [ri EXCEPT ![r] = ri[r] + 1]
              /\ UNCHANGED pcR
    /\ UNCHANGED <<GlobalResource, res, mutexW, mutexR, pcW, tmpW, wi, ret,
                   fresh, expect, pubs, lastPub, prevPub, npub>>
    /\ UNCHANGED outsideStore

\* a GetGlobalResource that returns without RUnlock
GetRUnlock_Keep(r) ==
    /\ pcR[r] = "runlock"
    /\ pcR' = [pcR EXCEPT ![r] = "done"]
    /\ ret' = [ret EXCEPT ![r] = View(heap, got[r])]
    /\ expect' = [expect EXCEPT ![r] = IF fresh[r] THEN lastPub ELSE View(heap, got[r])]
    /\ fresh' = [fresh EXCEPT ![r] = FALSE]
    /\ UNCHANGED <<heap, GlobalResource, res, mutexW, mutexR, pcW, tmpW, wi, got, ri,
                   pubs, lastPub, prevPub, npub>>
    /\ UNCHANGED outsideStore

\* defer GlobalResMutex.RUnlock(), and the return
GetRUnlock(r) ==
    /\ pcR[r] = "runlock"
    /\ mutexR' = mutexR \ {r}
    /\ pcR' = [pcR EXCEPT ![r] = "done"]
    /\ ret' = [ret EXCEPT ![r] = View(heap, got[r])]
    /\ expect' = [expect EXCEPT ![r] = IF fresh[r] THEN lastPub ELSE View(heap, got[r])]
    /\ fresh' = [fresh EXCEPT ![r] = FALSE]
    /\ UNCHANGED <<heap, GlobalResource, res, mutexW, pcW, tmpW, wi, got, ri,
                   pubs, lastPub, prevPub, npub>>
    /\ UNCHANGED outsideStore

GetGlobalResource(r) == GetRLock(r) \/ GetRead(r) \/ GetRUnlock(r)

\* ------------------------------------------- callers of the store's API
\* a holder of a Resource overwrites its scalar fields
DirtyScalars(x) ==
    [x EXCEPT !.CPUUsageRate = Dirty, !.MemUsageRate = Dirty, !.DiskUsageRate = Dirty]
\* a holder overwrites element i of its NetworkTraffic slice (in the array)
DirtyElem(h, sl, i) == [h EXCEPT ![sl.arr][i] = Traffic(i, Dirty)]

\* the publisher mutates its own buffer (once) after SetGlobalResource returned
CallerMutate ==
    /\ pcW = "idle"
    /\ npub > 0
    /\ View(heap, res) = lastPub
    /\ \/ /\ res' = DirtyScalars(res)
          /\ UNCHANGED heap
       \/ \E i \in 1..res.NetworkTraffic.len :
             /\ heap' = DirtyElem(heap, res.NetworkTraffic, i)
             /\ UNCHANGED res
       \/ \* res.NetworkTraffic = append(res.NetworkTraffic, x)
          /\ res.NetworkTraffic.len < MaxIf
          /\ LET sl == res.NetworkTraffic
                 n == sl.len + 1 IN
             IF n <= Cap(heap, sl)
               THEN /\ heap' = [heap EXCEPT ![sl.arr][n] = Traffic(n, Dirty)]
                    /\ res' = [res EXCEPT !.NetworkTraffic.len = n]
               ELSE LET a == NewArray(heap, Append(Elems(heap, sl), Traffic(n, Dirty)), n) IN
                    /\ res' = [res EXCEPT !.NetworkTraffic = a.slice]
                    /\ heap' = Collect(a.heap, RootsOf(GlobalResource, res', tmpW, got))
    /\ UNCHANGED <<GlobalResource, mutexW, mutexR, pcW, tmpW, wi, pcR, got,
                   ri, ret, fresh, expect, pubs, lastPub, prevPub, npub>>
    /\ UNCHANGED outsideStore

\* a reader mutates (once) the copy GetGlobalResource returned to it
ReaderMutate(r) ==
    /\ pcR[r] = "done"
    /\ pcR' = [pcR EXCEPT ![r] = "dirty"]
    /\ \/ /\ got' = [got EXCEPT ![r] = DirtyScalars(got[r])]
          /\ UNCHANGED heap
       \/ \E i \in 1..got[r].NetworkTraffic.len :
             /\ heap' = DirtyElem(heap, got[r].NetworkTraffic, i)
             /\ UNCHANGED got
    /\ UNCHANGED <<GlobalResource, res, mutexW, mutexR, pcW, tmpW, wi, ri,
                   ret, fresh, expect, pubs, lastPub, prevPub, npub>>
    /\ UNCHANGED outsideStore

\* a reader is done with its copy
ReaderDrop(r) ==
    /\ pcR[r] \in {"done", "dirty"}
    /\ pcR' = [pcR EXCEPT ![r] = "idle"]
    /\ got' = [got EXCEPT ![r] = ZeroResource]
    /\ ret' = [ret EXCEPT ![r] = ZeroView]
    /\ expect' = [expect EXCEPT ![r] = ZeroView]
    /\ heap' = Collect(heap, RootsOf(GlobalResource, res, tmpW, got'))
    /\ UNCHANGED <<GlobalResource, res, mutexW, mutexR, pcW, tmpW, wi, ri,
                   fresh, pubs, lastPub, prevPub, npub>>
    /\ UNCHANGED outsideStore

StoreNext ==
    \/ SetCall
    \/ SetGlobalResource
    \/ CallerMutate
    \/ \E r \in Readers : GetCall(r)
    \/ \E r \in Readers : GetGlobalResource(r)
    \/ \E r \in Readers : ReaderMutate(r)
    \/ \E r \in Readers : ReaderDrop(r)

Init == StoreInit /\ LoopInit /\ BootInit /\ SupInit /\ TimeInit /\ ConfInit

\* the store under a publisher and concurrent readers

SpecStore == Init /\ [][StoreNext]_vars

\* sync.RWMutex keeps a writer from starving: while a Lock() call is pending,
\* an RLock() call blocks
RLockFair(r) == pcW # "lock" /\ GetRLock(r)

\* the calls of the store alone: the callers leave their buffers and copies as
\* they are
StoreFairNext ==
    \/ SetCall
    \/ SetGlobalResource
    \/ \E r \in Readers : GetCall(r)
    \/ \E r \in Readers : RLockFair(r)
    \/ \E r \in Readers : GetRead(r)
    \/ \E r \in Readers : GetRUnlock(r)
    \/ \E r \in Readers : ReaderDrop(r)

\* the store with every goroutine scheduled and a fair GlobalResMutex: a step
\* inside SetGlobalResource or GetGlobalResource that can be taken is taken, a
\* Lock() that can succeed does, and an RLock() that can succeed again and
\* again does
SpecStoreLive ==
    /\ Init /\ [][StoreFairNext]_vars
    /\ WF_vars(SetGlobalResource)
    /\ \A r \in Readers : WF_vars(GetRead(r) \/ GetRUnlock(r)) /\ SF_vars(RLockFair(r))

\* the configuration being loaded
ConfNext == LoadConfig

SpecConf == Init /\ [][ConfNext]_vars

\* ------------------------------------------------- CollectResource (loop)
\* what the loop's own steps never touch
outsideLoop == <<GlobalResource, lockVars, tmpW, wi, readerVars, readerHist,
                 lastPub, prevPub, npub, regVars, bootVars, supVars, timeVars, confVars>>

\* the cpu and mem goroutines assigning each other's field
FieldOf_Swapped(kind) ==
    CASE kind = "cpu" -> "MemUsageRate"
      [] kind = "mem" -> "CPUUsageRate"
      [] kind = "disk" -> "DiskUsageRate"
      [] kind = "net" -> "NetworkTraffic"

\* the mem goroutine assigning the cpu goroutine's field
FieldOf_Shared(kind) ==
    CASE kind = "cpu" -> "CPUUsageRate"
      [] kind = "mem" -> "CPUUsageRate"
      [] kind = "disk" -> "DiskUsageRate"
      [] kind = "net" -> "NetworkTraffic"

\* the field of Resource a sampler goroutine assigns
FieldOf(kind) ==
    CASE kind = "cpu" -> "CPUUsageRate"
      [] kind = "mem" -> "MemUsageRate"
      [] kind = "disk" -> "DiskUsageRate"
      [] kind = "net" -> "NetworkTraffic"

\* getCPUUsageRate and getNetworkTraffic read the counters twice, one second
\* apart; getMemUsageRate and getDiskUsageRate read them once
Reads(kind) == IF kind \in {"cpu", "net"} THEN 2 ELSE 1

\* goroutine.WaitCancelWithTimeout(ctx, timeout): blocks for the period or until
\* cancellation, whichever is first, and reports which. A context that was
\* already cancelled when a wait with a positive period began wins; otherwise
\* (a cancellation during the wait, or a zero period) both may be ready
WaitOutcomes(wasCancelled, isCancelled, period) ==
    (IF isCancelled THEN {"WaitCancel"} ELSE {})
        \cup (IF wasCancelled /\ period > 0 THEN {} ELSE {"WaitTimeout"})

\* the goroutine manager starts CollectResource: var wg; var timeout = 0
LoopStart ==
    /\ pcL = "idle"
    /\ pcL' = "enter"
    /\ timeout' = 0
    /\ wg' = 0
    /\ UNCHANGED <<li, threads, cancelled, enteredCancelled>>
    /\ UNCHANGED <<heap, res, pcW, pubs, loopHist, outsideLoop>>

\* the loop condition calls WaitCancelWithTimeout(ctx, timeout)
LoopWaitEnter ==
    /\ pcL = "enter"
    /\ pcL' = "wait"
    /\ enteredCancelled' = cancelled
    /\ UNCHANGED <<timeout, li, wg, threads, cancelled>>
    /\ UNCHANGED <<heap, res, pcW, pubs, loopHist, outsideLoop>>

\* a loop body that never sets the period: every wait is the zero wait
LoopWaitTimeout_NoPeriod ==
    /\ pcL = "wait"
    /\ "WaitTimeout" \in WaitOutcomes(enteredCancelled, cancelled, timeout)
    /\ cycle < MaxCycles
    /\ pcL' = "launch"
    /\ li' = 1
    /\ res' = ZeroResource
    /\ heap' = Collect(heap, RootsOf(GlobalResource, ZeroResource, tmpW, got))
    /\ cycle' = cycle + 1
    /\ outcome' = [k \in Kinds |-> "none"]
    /\ sampled' = NoSamples
    /\ UNCHANGED <<timeout, wg, threads, cancelled, enteredCancelled>>
    /\ UNCHANGED <<pcW, pubs, waitCancelled, exitAt, cancelAt, outsideLoop>>

\* the wait returns WaitTimeout: the body begins (var res Resource;
\* timeout = 3 * time.Second)
LoopWaitTimeout ==
    /\ pcL = "wait"
    /\ "WaitTimeout" \in WaitOutcomes(enteredCancelled, cancelled, timeout)
    /\ cycle < MaxCycles
    /\ pcL' = "launch"
    /\ li' = 1
    /\ timeout' = Period
    /\ res' = ZeroResource
    /\ heap' = Collect(heap, RootsOf(GlobalResource, ZeroResource, tmpW, got))
    /\ cycle' = cycle + 1
    /\ outcome' = [k \in Kinds |-> "none"]
    /\ sampled' = NoSamples
    /\ UNCHANGED <<wg, threads, cancelled, enteredCancelled>>
    /\ UNCHANGED <<pcW, pubs, waitCancelled, exitAt, cancelAt, outsideLoop>>

\* a loop condition that does not compare the wait's result: the body runs
\* after WaitCancel too
LoopWaitCancel_Continue ==
    /\ pcL = "wait"
    /\ "WaitCancel" \in WaitOutcomes(enteredCancelled, cancelled, timeout)
    /\ cycle < MaxCycles
    /\ pcL' = "launch"
    /\ li' = 1
    /\ timeout' = Period
    /\ res' = ZeroResource
    /\ heap' = Collect(heap, RootsOf(GlobalResource, ZeroResource, tmpW, got))
    /\ cycle' = cycle + 1
    /\ outcome' = [k \in Kinds |-> "none"]
    /\ sampled' = NoSamples
    /\ waitCancelled' = TRUE
    /\ exitAt' = [cycle |-> cycle, npub |-> npub]
    /\ UNCHANGED <<wg, threads, cancelled, enteredCancelled>>
    /\ UNCHANGED <<pcW, pubs, cancelAt, outsideLoop>>

\* the wait returns WaitCancel: the loop condition fails and CollectResource returns
LoopWaitCancel ==
    /\ pcL = "wait"
    /\ "WaitCancel" \in WaitOutcomes(enteredCancelled, cancelled, timeout)
    /\ pcL' = "done"
    /\ waitCancelled' = TRUE
    /\ exitAt' = [cycle |-> cycle, npub |-> npub]
    /\ UNCHANGED <<timeout, li, wg, threads, cancelled, enteredCancelled>>
    /\ UNCHANGED <<heap, res, pcW, pubs, cycle, outcome, sampled, cancelAt, outsideLoop>>

\* a cycle that adds one more to the WaitGroup than it starts goroutines
LoopLaunch_ExtraAdd ==
    /\ pcL = "launch"
    /\ wg' = wg + (IF li = Len(KindOrder) THEN 2 ELSE 1)
    /\ threads' = threads \cup {[cyc |-> cycle, kind |-> KindOrder[li], reads |-> 0]}
    /\ IF li = Len(KindOrder)
         THEN pcL' = "join" /\ li' = 0
         ELSE li' = li + 1 /\ UNCHANGED pcL
    /\ UNCHANGED <<timeout, cancelled, enteredCancelled>>
    /\ UNCHANGED <<heap, res, pcW, pubs, loopHist, outsideLoop>>

\* wg.Add(1); go func() { defer wg.Done(); res.X, err = rc.getX() ... }()
LoopLaunch ==
    /\ pcL = "launch"
    /\ wg' = wg + 1
    /\ threads' = threads \cup {[cyc |-> cycle, kind |-> KindOrder[li], reads |-> 0]}
    /\ IF li = Len(KindOrder)
         THEN pcL' = "join" /\ li' = 0
         ELSE li' = li + 1 /\ UNCHANGED pcL
    /\ UNCHANGED <<timeout, cancelled, enteredCancelled>>
    /\ UNCHANGED <<heap, res, pcW, pubs, loopHist, outsideLoop>>

\* the publish started as a goroutine after the join (go SetGlobalResource(&res)),
\* the loop going straight back to its condition
LoopJoin_GoPublish ==
    /\ pcL = "join"
    /\ wg = 0
    /\ pcW = "idle"
    /\ pcL' = "enter"
    /\ pcW' = "lock"
    /\ pubs' = pubs \cup {View(heap, res)}
    /\ UNCHANGED <<timeout, li, wg, threads, cancelled, enteredCancelled>>
    /\ UNCHANGED <<heap, res, loopHist, outsideLoop>>

\* the loop calling SetGlobalResource(&res) without wg.Wait()
LoopJoin_NoWait ==
    /\ pcL = "join"
    /\ pcW = "idle"
    /\ pcL' = "publish"
    /\ pcW' = "lock"
    /\ pubs' = pubs \cup {View(heap, res)}
    /\ UNCHANGED <<timeout, li, wg, threads, cancelled, enteredCancelled>>
    /\ UNCHANGED <<heap, res, loopHist, outsideLoop>>

\* a join that gives up when ctx is cancelled: select on ctx.Done() and the
\* wait group, returning from CollectResource on cancellation
LoopJoin_CancelAware ==
    /\ pcL = "join"
    /\ IF cancelled
         THEN /\ pcL' = "done"
              /\ UNCHANGED <<pcW, pubs>>
         ELSE /\ wg = 0
              /\ pcW = "idle"
              /\ pcL' = "publish"
              /\ pcW' = "lock"
              /\ pubs' = pubs \cup {View(heap, res)}
    /\ UNCHANGED <<timeout, li, wg, threads, cancelled, enteredCancelled>>
    /\ UNCHANGED <<heap, res, loopHist, outsideLoop>>

\* wg.Wait() returns, and the loop calls SetGlobalResource(&res)
LoopJoin ==
    /\ pcL = "join"
    /\ wg = 0
    /\ pcW = "idle"
    /\ pcL' = "publish"
    /\ pcW' = "lock"
    /\ pubs' = pubs \cup {View(heap, res)}
    /\ UNCHANGED <<timeout, li, wg, threads, cancelled, enteredCancelled>>
    /\ UNCHANGED <<heap, res, loopHist, outsideLoop>>

\* the publish started as its own goroutine (go SetGlobalResource(&res)): the
\* loop goes on without waiting for it to return
LoopReturn_Async ==
    /\ pcL = "publish"
    /\ pcL' = "enter"
    /\ UNCHANGED <<timeout, li, wg, threads, cancelled, enteredCancelled>>
    /\ UNCHANGED <<heap, res, pcW, pubs, loopHist, outsideLoop>>

\* a loop that goes back to a zero delay after every cycle
LoopReturn_NoDelay ==
    /\ pcL = "publish"
    /\ pcW = "idle"
    /\ pcL' = "enter"
    /\ timeout' = 0
    /\ UNCHANGED <<li, wg, threads, cancelled, enteredCancelled>>
    /\ UNCHANGED <<heap, res, pcW, pubs, loopHist, outsideLoop>>

\* a loop that gives up after a cycle in which a sampler failed
LoopReturn_StopOnError ==
    /\ pcL = "publish"
    /\ pcW = "idle"
    /\ pcL' = (IF \E k \in Kinds : outcome[k] = "err" THEN "done" ELSE "enter")
    /\ UNCHANGED <<timeout, li, wg, threads, cancelled, enteredCancelled>>
    /\ UNCHANGED <<heap, res, pcW, pubs, loopHist, outsideLoop>>

\* SetGlobalResource has returned; the debug lines are logged and the loop
\* goes back to its condition
LoopReturn ==
    /\ pcL = "publish"
    /\ pcW = "idle"
    /\ pcL' = "enter"
    /\ UNCHANGED <<timeout, li, wg, threads, cancelled, enteredCancelled>>
    /\ UNCHANGED <<heap, res, pcW, pubs, loopHist, outsideLoop>>

\* the value a sampler of cycle c computes when its reads succeed: n interfaces
SampleOf(kind, c, n) ==
    IF kind = "net" THEN [i \in 1..n |-> Traffic(i, c)] ELSE c

\* the goroutine's assignment res.X, err = ..., its warning, and wg.Done()
SamplerFinish(t, val, err) ==
    /\ LET a == NewArray(heap, val, Len(val)) IN
       IF t.cyc # cycle
         THEN UNCHANGED <<res, heap>>
         ELSE IF t.kind = "net"
                THEN /\ res' = [res EXCEPT !.NetworkTraffic = a.slice]
                     /\ heap' = Collect(a.heap,
                                       RootsOf(GlobalResource, res', tmpW, got))
                ELSE /\ res' = [res EXCEPT ![FieldOf(t.kind)] = val]
                     /\ UNCHANGED heap
    /\ wg' = wg - 1
    /\ threads' = threads \ {t}
    /\ outcome' = [outcome EXCEPT ![t.kind] = IF err THEN "err" ELSE "ok"]
    /\ sampled' = [sampled EXCEPT ![t.kind] = val]

\* one counter read of a sampler goroutine (resource.GetCPUStat, GetMemStat,
\* GetDiskStat, GetAllNetworkTraffic): it fails, or it succeeds and the
\* sampler sleeps for the second read or returns its rate
Sampler(t) ==
    /\ t \in threads
    /\ \/ SamplerFinish(t, ZeroOf(t.kind), TRUE)
       \/ /\ t.reads + 1 < Reads(t.kind)
          /\ threads' = (threads \ {t}) \cup {[t EXCEPT !.reads = t.reads + 1]}
          /\ UNCHANGED <<res, heap, wg, outcome, sampled>>
       \/ /\ t.reads + 1 = Reads(t.kind)
          /\ \E n \in 0..MaxIf :
                /\ t.kind # "net" => n = 0
                /\ SamplerFinish(t, SampleOf(t.kind, t.cyc, n), FALSE)
    /\ UNCHANGED <<pcL, timeout, li, cancelled, enteredCancelled>>
    /\ UNCHANGED <<pcW, pubs, cycle, waitCancelled, exitAt, cancelAt, outsideLoop>>

\* the goroutine manager's StopAll cancels ctx
Cancel ==
    /\ ~cancelled
    /\ cancelled' = TRUE
    /\ cancelAt' = [pc |-> pcL, cycle |-> cycle]
    /\ UNCHANGED <<pcL, timeout, li, wg, threads, enteredCancelled>>
    /\ UNCHANGED <<heap, res, pcW, pubs, cycle, outcome, sampled, waitCancelled,
                   exitAt, outsideLoop>>

CollectResource ==
    \/ LoopWaitEnter
    \/ LoopWaitTimeout
    \/ LoopWaitCancel
    \/ LoopLaunch
    \/ LoopJoin
    \/ LoopReturn

\* the collection loop, its sampler goroutines and the cancellation of its context
LoopNext ==
    \/ LoopStart
    \/ CollectResource
    \/ \E t \in threads : Sampler(t)
    \/ SetGlobalResource
    \/ Cancel

SpecLoop == Init /\ [][LoopNext]_vars

\* ------------------------------------------ CollectResource against a clock
\* Time is counted in seconds. A step of the loop, of a sampler or of a publish
\* takes no time; time passes only while the loop is blocked in its wait or
\* in wg.Wait() with every sampler left asleep between its two reads.

\* a sampler that sleeps for the loop's period between its reads
SleepOf_Period(kind) == IF kind \in {"cpu", "net"} THEN Period ELSE 0

\* time.Sleep(1 * time.Second) in getCPUUsageRate and getNetworkTraffic
SleepOf(kind) == IF kind \in {"cpu", "net"} THEN 1 ELSE 0

WaitedNow == IF waited.cyc = cycle THEN waited.t ELSE 0
SleptNow == IF slept.cyc = cycle THEN slept.t ELSE 0

\* WaitCancelWithTimeout is blocked: neither cancelled nor timed out
WaitBlocked == pcL = "wait" /\ ~cancelled /\ WaitedNow < timeout
\* wg.Wait() is blocked and every sampler alive is in its time.Sleep
JoinBlocked ==
    /\ pcL = "join"
    /\ threads # {}
    /\ \A t \in threads : t.reads >= 1 /\ SleptNow < SleepOf(t.kind)

\* one second passes
Tick ==
    /\ WaitBlocked \/ JoinBlocked
    /\ waited' = IF WaitBlocked THEN [cyc |-> cycle, t |-> WaitedNow + 1] ELSE waited
    /\ slept' = IF JoinBlocked THEN [cyc |-> cycle, t |-> SleptNow + 1] ELSE slept
    /\ late' = IF cancelled THEN late + 1 ELSE late
    /\ UNCHANGED <<storeVars, loopVars, loopHist, regVars, bootVars, supVars, confVars>>

\* the wait returns WaitTimeout when its period has passed
TimedWaitTimeout == WaitedNow >= timeout /\ LoopWaitTimeout

\* a sampler makes its second read when its sleep is over
TimedSampler(t) == (t.reads >= 1 => SleptNow >= SleepOf(t.kind)) /\ Sampler(t)

TimedNext ==
    \/ LoopStart
    \/ LoopWaitEnter
    \/ TimedWaitTimeout
    \/ LoopWaitCancel
    \/ LoopLaunch
    \/ LoopJoin
    \/ LoopReturn
    \/ \E t \in threads : TimedSampler(t)
    \/ SetGlobalResource
    \/ Cancel
    \/ Tick

SpecTimed == Init /\ [][TimedNext]_vars

\* ------------------------------------------------- the goroutine manager
Registered(ts) == {ts[i].name : i \in 1..Len(ts)}

\* an AddTask that reports the duplicate but stores the new run function
AddTask_Replace(ts, name, run) ==
    IF name \in Registered(ts)
      THEN [tasks |-> [i \in 1..Len(ts) |->
                         IF ts[i].name = name THEN [name |-> name, run |-> run] ELSE ts[i]],
            err |-> "DuplicateTaskError"]
      ELSE [tasks |-> Append(ts, [name |-> name, run |-> run]), err |-> "nil"]

\* GoroutineManager.AddTask(name, run): an error when the name is registered,
\* else the task is stored
AddTask(ts, name, run) ==
    IF name \in Registered(ts)
      THEN [tasks |-> ts, err |-> "DuplicateTaskError"]
      ELSE [tasks |-> Append(ts, [name |-> name, run |-> run]), err |-> "nil"]

\* the registry under any sequence of AddTask calls
Register ==
    /\ nreg < MaxRegs
    /\ \E name \in TaskNames, run \in RunFns :
          LET r == AddTask(tasks, name, run) IN
          /\ tasks' = r.tasks
          /\ lastErr' = r.err
          /\ lastCall' = [name |-> name, run |-> run, taken |-> name \in Registered(tasks)]
          /\ firstRun' = IF firstRun[name] = "none"
                            THEN [firstRun EXCEPT ![name] = run] ELSE firstRun
    /\ nreg' = nreg + 1
    /\ UNCHANGED <<storeVars, loopVars, loopHist, bootVars, supVars, timeVars, confVars>>

RegNext == Register

SpecReg == Init /\ [][RegNext]_vars

\* --------------------------------------------------------- the bootstrap
outsideBoot == <<storeVars, loopVars, loopHist, supVars, timeVars, confVars>>

\* capacity of the channel SetupSignal makes
SigChanCap == 1

\* the runtime's delivery of a subscribed signal: a send that never blocks,
\* dropped when the channel is full
Notify(ch, sig) == IF Len(ch) < SigChanCap THEN Append(ch, sig) ELSE ch

\* process.SendSignal(config.RunConf.Pid, sig) while sigChan is subscribed
SendSignal(sig) == sigChan' = Notify(sigChan, sig)

\* GoroutineManager.StartAll(): one goroutine per registered task, each
\* invoking the task's run function with the shared context
StartAll(ts, rs) == [n \in TaskNames |-> IF n \in Registered(ts) THEN rs[n] + 1 ELSE rs[n]]

\* start, up to the pid file: any of the preparations may fail, or another
\* instance is running, and start returns
BootPrepare ==
    /\ pcB = "begin"
    /\ \E ok \in BOOLEAN : pcB' = IF ok THEN "signal" ELSE "exit"
    /\ UNCHANGED <<subscribed, sigChan, gmCancelled, pcS, listener, runs, handled>>
    /\ UNCHANGED <<regVars, outsideBoot>>

\* sigChan := SetupSignal()
SetupSignal ==
    /\ pcB = "signal"
    /\ subscribed' = TRUE
    /\ sigChan' = <<>>
    /\ pcB' = "initialization"
    /\ UNCHANGED <<gmCancelled, pcS, listener, runs, handled>>
    /\ UNCHANGED <<regVars, outsideBoot>>

\* gm := goroutine.NewGoroutineManager(); u.initialization(gm)
initialization ==
    /\ pcB = "initialization"
    /\ LET r == AddTask(<<>>, "server", "Server.Run") IN
       /\ tasks' = r.tasks
       /\ lastErr' = r.err
       /\ lastCall' = [name |-> "server", run |-> "Server.Run", taken |-> FALSE]
       /\ firstRun' = [firstRun EXCEPT !["server"] = "Server.Run"]
    /\ nreg' = nreg + 1
    /\ pcB' = "startall"
    /\ UNCHANGED <<subscribed, sigChan, gmCancelled, pcS, listener, runs, handled>>
    /\ UNCHANGED outsideBoot

\* two calls of gm.StartAll() in a row
BootStartAll_Twice ==
    /\ pcB = "startall"
    /\ runs' = StartAll(tasks, StartAll(tasks, runs))
    /\ pcS' = "config"
    /\ pcB' = "sigwait"
    /\ UNCHANGED <<subscribed, sigChan, gmCancelled, listener, handled>>
    /\ UNCHANGED <<regVars, outsideBoot>>

\* gm.StartAll()
BootStartAll ==
    /\ pcB = "startall"
    /\ runs' = StartAll(tasks, runs)
    /\ pcS' = IF "server" \in Registered(tasks) THEN "config" ELSE pcS
    /\ pcB' = "sigwait"
    /\ UNCHANGED <<subscribed, sigChan, gmCancelled, listener, handled>>
    /\ UNCHANGED <<regVars, outsideBoot>>

\* sig := <-sigChan
BootSigWait ==
    /\ pcB = "sigwait"
    /\ sigChan # <<>>
    /\ sigChan' = Tail(sigChan)
    /\ pcB' = "finalization"
    /\ UNCHANGED <<subscribed, gmCancelled, pcS, listener, runs, handled>>
    /\ UNCHANGED <<regVars, outsideBoot>>

\* signal.Stop(sigChan) deferred after finalization, so that it runs before it
BootStopAll_Unsubscribed ==
    /\ pcB = "finalization"
    /\ subscribed' = FALSE
    /\ gmCancelled' = TRUE
    /\ pcB' = "stopwait"
    /\ UNCHANGED <<sigChan, pcS, listener, runs, handled>>
    /\ UNCHANGED <<regVars, outsideBoot>>

\* the deferred finalization: gm.StopAll(10 * time.Second) cancels the context
BootStopAll ==
    /\ pcB = "finalization"
    /\ gmCancelled' = TRUE
    /\ pcB' = "stopwait"
    /\ UNCHANGED <<subscribed, sigChan, pcS, listener, runs, handled>>
    /\ UNCHANGED <<regVars, outsideBoot>>

\* StopAll returns when every task has exited or its timeout has elapsed
BootStopAllReturn ==
    /\ pcB = "stopwait"
    /\ \E timedOut \in BOOLEAN : timedOut \/ pcS \in {"off", "exited"}
    /\ pcB' = "finlog"
    /\ UNCHANGED <<subscribed, sigChan, gmCancelled, pcS, listener, runs, handled>>
    /\ UNCHANGED <<regVars, outsideBoot>>

\* logger.Log.FinalizeLogger(), then the deferred signal.Stop(sigChan); start returns
BootReturn ==
    /\ pcB = "finlog"
    /\ subscribed' = FALSE
    /\ pcB' = "exit"
    /\ UNCHANGED <<sigChan, gmCancelled, pcS, listener, runs, handled>>
    /\ UNCHANGED <<regVars, outsideBoot>>

start == BootPrepare \/ SetupSignal \/ initialization \/ BootStartAll \/ BootSigWait
            \/ BootStopAll \/ BootStopAllReturn \/ BootReturn

Alive == pcB # "exit"

\* Server.Run up to the listener: invalid TLS options or certificate files
\* signal SIGUSR1 and return
ServerConfigure ==
    /\ Alive /\ pcS = "config"
    /\ \E ok \in BOOLEAN :
          IF ok THEN pcS' = "listen" /\ UNCHANGED sigChan
                ELSE pcS' = "exited" /\ SendSignal("SIGUSR1")
    /\ UNCHANGED <<pcB, subscribed, gmCancelled, listener, runs, handled>>
    /\ UNCHANGED <<regVars, outsideBoot>>

\* go func() { server.ListenAndServe[TLS]() ... }()
ServerListen ==
    /\ Alive /\ pcS = "listen"
    /\ listener' = "serving"
    /\ pcS' = "ctxwait"
    /\ UNCHANGED <<pcB, subscribed, sigChan, gmCancelled, runs, handled>>
    /\ UNCHANGED <<regVars, outsideBoot>>

\* the listener goroutine: an error other than ErrServerClosed signals SIGUSR1
ListenerError ==
    /\ Alive /\ listener = "serving"
    /\ listener' = "failed"
    /\ SendSignal("SIGUSR1")
    /\ UNCHANGED <<pcB, subscribed, gmCancelled, pcS, runs, handled>>
    /\ UNCHANGED <<regVars, outsideBoot>>

\* <-ctx.Done()
ServerCtxDone ==
    /\ Alive /\ pcS = "ctxwait"
    /\ gmCancelled
    /\ pcS' = "shutdown"
    /\ UNCHANGED <<pcB, subscribed, sigChan, gmCancelled, listener, runs, handled>>
    /\ UNCHANGED <<regVars, outsideBoot>>

\* server.Shutdown(shutdownCtx); Run returns
ServerShutdown ==
    /\ Alive /\ pcS = "shutdown"
    /\ listener' = IF listener = "serving" THEN "closed" ELSE listener
    /\ pcS' = "exited"
    /\ UNCHANGED <<pcB, subscribed, sigChan, gmCancelled, runs, handled>>
    /\ UNCHANGED <<regVars, outsideBoot>>

Run == ServerConfigure \/ ServerListen \/ ListenerError \/ ServerCtxDone \/ ServerShutdown

\* a handler that logs the panic and sends no signal
panicHandler_LogOnly ==
    /\ Alive /\ pcS = "config"
    /\ handled' = handled + 1
    /\ pcS' = "exited"
    /\ UNCHANGED <<pcB, subscribed, sigChan, gmCancelled, listener, runs>>
    /\ UNCHANGED <<regVars, outsideBoot>>

\* a panic in Run while the router is built: the manager's wrapper recovers it
\* and calls gm.PanicHandler, which is u.panicHandler
panicHandler ==
    /\ Alive /\ pcS = "config"
    /\ handled' = handled + 1
    /\ SendSignal("SIGUSR1")
    /\ pcS' = "exited"
    /\ UNCHANGED <<pcB, subscribed, gmCancelled, listener, runs>>
    /\ UNCHANGED <<regVars, outsideBoot>>

\* a SIGINT or SIGTERM from outside, while sigChan is subscribed
Signal ==
    /\ Alive /\ subscribed
    /\ \E sig \in {"SIGINT", "SIGTERM"} : SendSignal(sig)
    /\ UNCHANGED <<pcB, subscribed, gmCancelled, pcS, listener, runs, handled>>
    /\ UNCHANGED <<regVars, outsideBoot>>

BootNext == start \/ Run \/ panicHandler \/ Signal

SpecBoot == Init /\ [][BootNext]_vars

\* the main goroutine is scheduled: a step of start that can be taken is taken
SpecBootLive == SpecBoot /\ WF_vars(start)

\* ------------------------------------ the goroutine manager and its tasks
\* the manager under any registered tasks: AddTask calls, StartAll, the tasks
\* running, looking at the context, returning or panicking, and StopAll calls
outsideSup == <<storeVars, loopVars, loopHist, nreg, firstRun, lastCall,
                pcB, subscribed, pcS, listener, timeVars, confVars>>

Running == {n \in TaskNames : tstate[n] = "running"}

\* the run function a name is registered with
RunOf(name) == IF name = "server" THEN "Server.Run" ELSE "ResourceCollecter.CollectResource"

\* gm.AddTask(name, run) before the tasks are started
SupAddTask ==
    /\ pcM = "setup"
    /\ \E name \in TaskNames :
          LET r == AddTask(tasks, name, RunOf(name)) IN
          /\ tasks' = r.tasks
          /\ lastErr' = r.err
    /\ UNCHANGED <<pcM, tstate, seen, stopErr, nstops, raised, faultLog, quietStop>>
    /\ UNCHANGED <<sigChan, gmCancelled, runs, handled, outsideSup>>

\* gm.StartAll(): every registered task runs in a goroutine of its own
SupStartAll ==
    /\ pcM = "setup"
    /\ tasks # <<>>
    /\ runs' = StartAll(tasks, runs)
    /\ tstate' = [n \in TaskNames |-> IF n \in Registered(tasks) THEN "running" ELSE tstate[n]]
    /\ pcM' = "started"
    /\ UNCHANGED <<seen, stopErr, nstops, raised, faultLog, quietStop>>
    /\ UNCHANGED <<tasks, lastErr, sigChan, gmCancelled, handled, outsideSup>>

\* a cancellation sent as one value on a channel: the task that receives it
\* takes it away from the others
TaskCheck_Consume(n) ==
    /\ tstate[n] = "running"
    /\ seen' = [seen EXCEPT ![n] = gmCancelled]
    /\ gmCancelled' = FALSE
    /\ UNCHANGED <<pcM, tstate, stopErr, nstops, raised, faultLog, quietStop>>
    /\ UNCHANGED <<tasks, lastErr, sigChan, runs, handled, outsideSup>>

\* a running task looks at ctx.Done(): closed or not
TaskCheck(n) ==
    /\ tstate[n] = "running"
    /\ seen' = [seen EXCEPT ![n] = gmCancelled]
    /\ UNCHANGED <<pcM, tstate, stopErr, nstops, raised, faultLog, quietStop>>
    /\ UNCHANGED <<tasks, lastErr, sigChan, gmCancelled, runs, handled, outsideSup>>

\* a running task's run function returns
TaskReturn(n) ==
    /\ tstate[n] = "running"
    /\ tstate' = [tstate EXCEPT ![n] = "exited"]
    /\ UNCHANGED <<pcM, seen, stopErr, nstops, raised, faultLog, quietStop>>
    /\ UNCHANGED <<tasks, lastErr, sigChan, gmCancelled, runs, handled, outsideSup>>

\* a panic that nothing recovers: the process and every goroutine in it end
TaskFault_Unrecovered(n) ==
    /\ tstate[n] = "running"
    /\ \E v \in FaultValues : raised' = [raised EXCEPT ![n] = v]
    /\ tstate' = [m \in TaskNames |-> IF tstate[m] = "running" THEN "exited" ELSE tstate[m]]
    /\ UNCHANGED <<pcM, seen, stopErr, nstops, faultLog, quietStop>>
    /\ UNCHANGED <<tasks, lastErr, sigChan, gmCancelled, runs, handled, outsideSup>>

\* a running task's run function panics with v: the manager's wrapper recovers
\* it and calls gm.PanicHandler(v), which is u.panicHandler: it logs the value
\* and sends SIGUSR1 to the process; the task's goroutine ends
TaskFault(n) ==
    /\ tstate[n] = "running"
    /\ \E v \in FaultValues :
          /\ raised' = [raised EXCEPT ![n] = v]
          /\ faultLog' = Append(faultLog, [task |-> n, value |-> v])
    /\ handled' = handled + 1
    /\ SendSignal("SIGUSR1")
    /\ tstate' = [tstate EXCEPT ![n] = "exited"]
    /\ UNCHANGED <<pcM, seen, stopErr, nstops, quietStop>>
    /\ UNCHANGED <<tasks, lastErr, gmCancelled, runs, outsideSup>>

\* a StopAll that starts the registered tasks again when none is running
SupStopAll_Restart ==
    /\ pcM \in {"started", "stopped"}
    /\ nstops < MaxStops
    /\ gmCancelled' = TRUE
    /\ pcM' = "stopping"
    /\ quietStop' = (nstops >= 1 /\ Running = {})
    /\ tstate' = IF Running = {}
                   THEN [n \in TaskNames |-> IF n \in Registered(tasks) THEN "running" ELSE tstate[n]]
                   ELSE tstate
    /\ UNCHANGED <<seen, stopErr, nstops, raised, faultLog>>
    /\ UNCHANGED <<tasks, lastErr, sigChan, runs, handled, outsideSup>>

\* gm.StopAll(timeout) is called: the shared context is cancelled
SupStopAll ==
    /\ pcM \in {"started", "stopped"}
    /\ nstops < MaxStops
    /\ gmCancelled' = TRUE
    /\ pcM' = "stopping"
    /\ quietStop' = (nstops >= 1 /\ Running = {})
    /\ UNCHANGED <<tstate, seen, stopErr, nstops, raised, faultLog>>
    /\ UNCHANGED <<tasks, lastErr, sigChan, runs, handled, outsideSup>>

\* a StopAll without the timeout: it returns only when every task has exited
SupStopAllReturn_WaitAll ==
    /\ pcM = "stopping"
    /\ Running = {}
    /\ pcM' = "stopped"
    /\ stopErr' = "nil"
    /\ nstops' = nstops + 1
    /\ UNCHANGED <<tstate, seen, raised, faultLog, quietStop>>
    /\ UNCHANGED <<tasks, lastErr, sigChan, gmCancelled, runs, handled, outsideSup>>

\* gm.StopAll(timeout) returns: every task has exited, or the timeout has elapsed
SupStopAllReturn ==
    /\ pcM = "stopping"
    /\ \E timedOut \in BOOLEAN : timedOut \/ Running = {}
    /\ pcM' = "stopped"
    /\ stopErr' = "nil"
    /\ nstops' = nstops + 1
    /\ UNCHANGED <<tstate, seen, raised, faultLog, quietStop>>
    /\ UNCHANGED <<tasks, lastErr, sigChan, gmCancelled, runs, handled, outsideSup>>

SupNext ==
    \/ SupAddTask
    \/ SupStartAll
    \/ \E n \in TaskNames : TaskCheck(n)
    \/ \E n \in TaskNames : TaskReturn(n)
    \/ \E n \in TaskNames : TaskFault(n)
    \/ SupStopAll
    \/ SupStopAllReturn

SpecSup == Init /\ [][SupNext]_vars

\* the timer of StopAll fires: a StopAll that may return does return. Nothing
\* is assumed of the tasks, which may run forever
SpecSupLive == SpecSup /\ WF_vars(SupStopAllReturn)

\* ------------------------------------------------------------ the claims
StoreView == View(heap, GlobalResource)
Holding(r) == pcR[r] \in {"done", "dirty"}

\* C1 (publish isolation): between the return of a publish and the next publish
\* call the store holds the value the argument had when it was published, and
\* every GetGlobalResource call that falls in that interval returns that value,
\* whatever the caller has done to its own buffer since
C1_PublishIsolation ==
    /\ pcW = "idle" => StoreView = lastPub
    /\ \A r \in Readers : Holding(r) => ret[r] = expect[r]

\* a reader holds exactly the published value although the publisher has since
\* overwritten an element of the buffer it published, or appended to it
C1_Witness ==
    \E r \in Readers :
        /\ pcR[r] = "done"
        /\ npub > 0
        /\ ret[r] = lastPub
        /\ expect[r] = lastPub
        /\ Len(lastPub.NetworkTraffic) > 0
        /\ View(heap, res).NetworkTraffic # lastPub.NetworkTraffic

\* C2 (read isolation): a reader mutating the copy it was returned changes
\* neither the stored snapshot nor any other reader's copy, and no step of a
\* publish changes a copy a reader holds
C2_ReadIsolation ==
    [][/\ \A r \in Readers :
            ReaderMutate(r) =>
                /\ View(heap', GlobalResource') = StoreView
                /\ \A q \in Readers \ {r} : View(heap', got'[q]) = View(heap, got[q])
       /\ (SetCall \/ SetGlobalResource) =>
            \A r \in Readers : Holding(r) => View(heap', got'[r]) = View(heap, got[r])
      ]_vars

\* one reader has overwritten an element of its copy, another still holds the
\* first snapshot unchanged after a second publish has replaced it in the store
C2_Witness ==
    \E r \in Readers, q \in Readers :
        /\ pcR[r] = "dirty"
        /\ got[r].NetworkTraffic.len > 0
        /\ View(heap, got[r]).NetworkTraffic # ret[r].NetworkTraffic
        /\ pcR[q] = "done"
        /\ ret[q].CPUUsageRate = 1
        /\ View(heap, got[q]) = ret[q]
        /\ npub = 2
        /\ StoreView = lastPub

\* C3 (no torn reads): every value GetGlobalResource has returned is the zero
\* snapshot or the argument of one publish call, all four fields together
C3_NoTornRead ==
    \A r \in Readers : Holding(r) => ret[r] \in pubs \cup {ZeroView}

\* the writer is in the middle of storing the second snapshot, one reader waits
\* for the lock and another holds the first published snapshot
C3_Witness ==
    \E r \in Readers, q \in Readers :
        /\ pcW = "store"
        /\ wi = 3
        /\ npub = 1
        /\ pcR[r] = "rlock"
        /\ pcR[q] = "done"
        /\ ret[q] = lastPub

AtLoopHead == pcL \in {"enter", "wait", "done"}
InCycle == {"launch", "join", "publish"}
Failed == {k \in Kinds : outcome[k] = "err"}
AllFinished == \A k \in Kinds : outcome[k] # "none"

\* C4 (no overlapping cycles): the sampler goroutines alive all belong to the
\* current cycle, at most four of them, and while a cycle launches or runs its
\* samplers every earlier cycle's publish has returned
C4_NoOverlap ==
    /\ \A t \in threads : t.cyc = cycle
    /\ Cardinality(threads) <= Len(KindOrder)
    /\ (pcL \in {"launch", "join"} \/ threads # {}) => (pcW = "idle" /\ npub = cycle - 1)

\* the four samplers of the second cycle are in flight after the first publish
C4_Witness ==
    /\ cycle = 2
    /\ Cardinality(threads) = Len(KindOrder)
    /\ npub = 1

C6_JoinBeforePublish ==
    /\ pcW # "idle" => (pcL = "publish" /\ threads = {} /\ wg = 0 /\ AllFinished)
    /\ AtLoopHead => npub = cycle
    /\ pcL \in {"launch", "join"} => npub = cycle - 1
    /\ pcL = "publish" => npub = (IF pcW = "idle" THEN cycle ELSE cycle - 1)

\* two cycles have published although all four samplers of the second failed
C6_Witness ==
    /\ pcL = "enter"
    /\ cycle = 2
    /\ npub = 2
    /\ Failed = Kinds

\* C7 (cancellation during the wait): once the wait has reported WaitCancel the
\* loop has returned, no sampler runs, no publish is in progress, and no cycle
\* or publish has been added since
C7_CancelAtWait ==
    waitCancelled =>
        /\ pcL = "done"
        /\ threads = {}
        /\ pcW = "idle"
        /\ cycle = exitAt.cycle
        /\ npub = exitAt.npub

\* the context was cancelled while the loop waited after its first cycle, and
\* the wait reported it
C7_Witness ==
    /\ waitCancelled
    /\ cancelAt = [pc |-> "wait", cycle |-> 1]
    /\ cycle = 1

\* C8 (no cancellation mid-sample): when the context is cancelled while a cycle
\* is in flight, the loop returns only through a wait that reports WaitCancel,
\* after all four samplers of that cycle have finished and it has published
C8_NoMidSampleCancel ==
    /\ pcL = "done" => waitCancelled
    /\ cancelAt.pc \in InCycle =>
          (AtLoopHead => (npub >= cancelAt.cycle /\ AllFinished))

\* cancelled while the samplers of the first cycle ran: the cycle published
\* and the loop returned at the wait that followed
C8_Witness ==
    /\ pcL = "done"
    /\ cancelAt = [pc |-> "join", cycle |-> 1]
    /\ cycle = 1
    /\ npub = 1
    /\ StoreView = lastPub

\* C9 (unique task names): after any sequence of AddTask calls the registry
\* holds at most one task per name; every name ever passed is registered with
\* the run function of its first call, so a call with a taken name replaced
\* nothing; and a call returns DuplicateTaskError exactly when its name was
\* taken, nil otherwise.
C9_UniqueTaskNames ==
    /\ \A i, j \in 1..Len(tasks) : tasks[i].name = tasks[j].name => i = j
    /\ \A n \in TaskNames :
          IF firstRun[n] = "none"
            THEN n \notin Registered(tasks)
            ELSE \E i \in 1..Len(tasks) : tasks[i] = [name |-> n, run |-> firstRun[n]]
    /\ nreg > 0 => lastErr = IF lastCall.taken THEN "DuplicateTaskError" ELSE "nil"

\* a second call for a registered name, with another run function, has failed
C9_Witness ==
    /\ lastErr = "DuplicateTaskError"
    /\ lastCall.run # firstRun[lastCall.name]
    /\ Len(tasks) >= 2

StartAllReturned == pcB \in {"sigwait", "finalization", "stopwait", "finlog", "exit"}

Faulted == {n \in TaskNames : raised[n] # "none"}
HandlerCallsFor(n) == {i \in 1..Len(faultLog) : faultLog[i].task = n}

\* C11 (panic isolation): a task whose run function panicked is exited and the
\* panic handler has been called exactly once for it, with the value it
\* panicked with; the handler has been called for no other task; and the step
\* in which a task panics leaves every other task's state, the shared context
\* and the manager's caller as they were.
C11_PanicIsolation ==
    /\ [](/\ \A n \in Faulted :
                /\ tstate[n] = "exited"
                /\ Cardinality(HandlerCallsFor(n)) = 1
                /\ \A i \in HandlerCallsFor(n) : faultLog[i].value = raised[n]
          /\ \A n \in TaskNames \ Faulted : HandlerCallsFor(n) = {}
          /\ handled = Len(faultLog))
    /\ [][\A n \in TaskNames :
            (raised[n] = "none" /\ raised'[n] # "none") =>
                /\ \A m \in TaskNames \ {n} : tstate'[m] = tstate[m] /\ seen'[m] = seen[m]
                /\ gmCancelled' = gmCancelled
                /\ pcM' = pcM
         ]_vars

\* one task panicked with e2 and the handler was called with e2, once, while
\* the two other tasks keep running under a context that is not cancelled
C11_Witness ==
    /\ raised["server"] = "e2"
    /\ faultLog = <<[task |-> "server", value |-> "e2"]>>
    /\ handled = 1
    /\ Running = {"collector", "reporter"}
    /\ ~gmCancelled
    /\ pcM = "started"

\* C12 (StopAll always returns): every StopAll call returns, with no error,
\* whatever the tasks do, also when a task never looks at the context; and its
\* return changes no task's state, so a task that runs keeps running.
C12_StopAllReturns ==
    /\ [](pcM = "stopping" => <>(pcM = "stopped" /\ stopErr = "nil"))
    /\ [][(pcM = "stopping" /\ pcM' = "stopped") =>
            (stopErr' = "nil" /\ tstate' = tstate /\ raised' = raised)]_vars

\* StopAll has returned while a task that never saw the cancellation still runs
C12_Witness ==
    /\ pcM = "stopped"
    /\ stopErr = "nil"
    /\ nstops = 1
    /\ gmCancelled
    /\ \E n \in Running : ~seen[n]

\* C13 (broadcast cancellation): the shared context, once cancelled, stays
\* cancelled; a running task that looks at it while it is cancelled sees it
\* cancelled, and its look changes what no other task has seen or will see;
\* no task sees a cancellation that was not made.
C13_BroadcastCancel ==
    /\ [](\A n \in TaskNames : seen[n] => gmCancelled)
    /\ [][/\ gmCancelled => gmCancelled'
          /\ \A n \in TaskNames :
                (TaskCheck(n) /\ gmCancelled) =>
                    /\ seen'[n]
                    /\ \A m \in TaskNames \ {n} : seen'[m] = seen[m]
         ]_vars

\* three running tasks have each seen the one cancellation
C13_Witness ==
    /\ gmCancelled
    /\ Running = TaskNames
    /\ \A n \in TaskNames : seen[n]

\* what a call of the manager may change besides its caller's position
ManagerState == <<tasks, tstate, seen, gmCancelled, runs, handled, raised, faultLog, sigChan>>

\* C14 (StopAll is idempotent): a StopAll call made after an earlier StopAll
\* has returned and every task has exited changes no state of the manager or
\* of any task, starts no task and calls no handler, from its call to its
\* return, and returns no error.
C14_StopAllIdempotent ==
    [][/\ (pcM = "stopped" /\ Running = {} /\ pcM' = "stopping") => UNCHANGED ManagerState
       /\ (pcM = "stopping" /\ quietStop) =>
             (UNCHANGED ManagerState /\ (pcM' = "stopped" => stopErr' = "nil"))
      ]_vars

\* the second StopAll has returned; it was called when all three tasks had
\* exited, one of them by a panic
C14_Witness ==
    /\ pcM = "stopped"
    /\ nstops = 2
    /\ quietStop
    /\ stopErr = "nil"
    /\ Registered(tasks) = TaskNames
    /\ handled = 1

\* the longest a sampler takes: the one-second sleep between its two reads
MaxSamplerSecs == 1

\* C15 (cancellation latency bound): from the cancellation of ctx until
\* CollectResource returns, never more than one sampler's duration (1 s)
\* passes, which is less than the period; and all the time that passes after
\* the cancellation is time the samplers of one cycle sleep, none of it is
\* spent in the wait: the loop never waits out what is left of the 3 s.
C15_CancelLatency ==
    /\ late <= MaxSamplerSecs
    /\ MaxSamplerSecs < Period
    /\ late <= slept.t
    /\ (cancelled /\ pcL = "wait") => (late = 0 \/ waited.cyc # cycle)

\* ctx was cancelled while the samplers of the first cycle slept: the loop
\* returned one second later
C15_Witness ==
    /\ pcL = "done"
    /\ cancelAt = [pc |-> "join", cycle |-> 1]
    /\ slept = [cyc |-> 1, t |-> 1]
    /\ late = 1
    /\ npub = 1

\* ctx was cancelled one second into the 3 s wait: the loop returned at once
C15_WitnessWait ==
    /\ pcL = "done"
    /\ cancelAt = [pc |-> "wait", cycle |-> 1]
    /\ waited = [cyc |-> 1, t |-> 1]
    /\ late = 0

\* the cycles whose values a snapshot holds: the tags of its fields that are not zero
CyclesIn(v) ==
    ({v[f] : f \in ScalarFields} \ {0})
        \cup {v.NetworkTraffic[i].InboundBps : i \in 1..Len(v.NetworkTraffic)}
        \cup {v.NetworkTraffic[i].OutboundBps : i \in 1..Len(v.NetworkTraffic)}

\* C17 (publication order is cycle order): the k-th snapshot installed is the
\* one of the k-th cycle: a cycle starts only when the snapshot of the cycle
\* before it is installed, a publish returns only for the current cycle, and
\* whenever the write lock is free, so that a reader can read, the store holds
\* the snapshot installed last, with values of that cycle and of no other.
\* The snapshot a reader can get therefore never goes back to an earlier cycle.
C17_PublicationOrder ==
    /\ [](~mutexW => (StoreView = lastPub /\ CyclesIn(StoreView) \subseteq {npub}))
    /\ [][/\ npub' # npub => (npub' = npub + 1 /\ npub' = cycle)
          /\ cycle' # cycle => (cycle' = cycle + 1 /\ npub = cycle /\ pcW = "idle")
         ]_vars

\* the second cycle's snapshot has replaced the first's, and the store can be read
C17_Witness ==
    /\ npub = 2
    /\ cycle = 2
    /\ ~mutexW
    /\ prevPub.MemUsageRate = 1
    /\ StoreView.MemUsageRate = 2
    /\ Len(StoreView.NetworkTraffic) = MaxIf

\* C18 (wait periods): the wait before the first cycle is called with a zero
\* delay and every wait after a cycle with 3 seconds; a wait never lasts
\* longer than its delay; and a cycle starts when the wait before it has
\* lasted exactly its delay, so the first cycle starts at once.
C18_WaitPeriods ==
    /\ [](/\ pcL \in {"enter", "wait"} => timeout = (IF cycle = 0 THEN 0 ELSE 3)
          /\ WaitedNow <= timeout)
    /\ [][cycle' # cycle => WaitedNow = (IF cycle = 0 THEN 0 ELSE 3)]_vars

\* the second cycle has started, with no cancellation: no time passed before
\* the first cycle (one second passed in it) and 3 seconds in the wait after it
C18_Witness ==
    /\ cycle = 2
    /\ ~cancelled
    /\ waited = [cyc |-> 1, t |-> 3]
    /\ slept = [cyc |-> 1, t |-> 1]
    /\ timeout = 3

\* the state of the collection loop, from its position in CollectResource:
\* Waiting is the call of WaitCancelWithTimeout in the loop condition, Sampling
\* is the loop body
LoopState ==
    CASE pcL = "idle" -> "Idle"
      [] pcL \in {"enter", "wait"} -> "Waiting"
      [] pcL \in {"launch", "join", "publish"} -> "Sampling"
      [] pcL = "done" -> "Cancelled"

Initialized == pcB \in {"startall", "sigwait", "finalization", "stopwait", "finlog"}

\* C20 (the collection loop is a supervised worker): once initialization has
\* returned, ResourceCollecter.CollectResource is the run function of a
\* registered task, and once gm.StartAll() has returned the loop has been
\* started, next to the reporting server.
C20_CollectorSupervised ==
    /\ Initialized =>
          \E i \in 1..Len(tasks) : tasks[i].run = "ResourceCollecter.CollectResource"
    /\ (Initialized /\ StartAllReturned) => (pcL # "idle" /\ runs["server"] = 1)

\* gm.StartAll() has returned: the server is the one registered task and has
\* been started, the loop has not, and nothing has been published
C20_Witness ==
    /\ pcB = "sigwait"
    /\ Registered(tasks) = {"server"}
    /\ runs["server"] = 1
    /\ pcL = "idle"
    /\ npub = 0

\* start has received a signal from sigChan
SignalReceived == pcB \in {"finalization", "stopwait", "finlog", "exit"}

\* C21 (fault escalation): once the panic handler has run, a termination
\* signal is in sigChan or start has already received one, whether start was
\* waiting or not when the handler ran and whatever else was signalled; and
\* from then on gm.StopAll is eventually called.
C21_FaultEscalation ==
    /\ [](handled >= 1 => (sigChan # <<>> \/ SignalReceived))
    /\ (handled >= 1) ~> gmCancelled

\* the server task panicked, the handler's SIGUSR1 was taken from sigChan and
\* StopAll has cancelled the context
C21_Witness ==
    /\ handled = 1
    /\ pcS = "exited"
    /\ pcB = "stopwait"
    /\ sigChan = <<>>
    /\ gmCancelled

\* the fields of res that a step changes
Written == {f \in DOMAIN res : res'[f] # res[f]}

\* C22 (no shared state between sampler goroutines): the goroutines alive are
\* those of the current cycle, one per kind, each still to assign its field,
\* and res is read for publishing only when none is left; a cycle begins with
\* a zero res and no goroutine of an earlier cycle; and a step that changes
\* res otherwise is one goroutine's single assignment, to its own field: cpu
\* to CPUUsageRate, mem to MemUsageRate, disk to DiskUsageRate, net to
\* NetworkTraffic.
C22_NoSharedSamplerState ==
    /\ [](/\ \A t \in threads : t.cyc = cycle /\ outcome[t.kind] = "none"
          /\ \A t, u \in threads : t.kind = u.kind => t = u
          /\ (pcL = "publish" \/ pcW # "idle") => threads = {})
    /\ [][/\ cycle' # cycle => (res' = ZeroResource /\ threads = {})
          /\ (Written # {} /\ cycle' = cycle) =>
                \E t \in threads :
                    /\ threads' = threads \ {t}
                    /\ outcome'[t.kind] # "none"
                    /\ Written = {CASE t.kind = "cpu" -> "CPUUsageRate"
                                    [] t.kind = "mem" -> "MemUsageRate"
                                    [] t.kind = "disk" -> "DiskUsageRate"
                                    [] t.kind = "net" -> "NetworkTraffic"}
          /\ pubs' # pubs => threads = {}
         ]_vars

\* in the second cycle three goroutines have assigned their fields, the cpu
\* one with an error, and the net goroutine is between its two reads
C22_Witness ==
    /\ cycle = 2
    /\ pcL = "join"
    /\ threads = {[cyc |-> 2, kind |-> "net", reads |-> 1]}
    /\ outcome = [cpu |-> "err", mem |-> "ok", disk |-> "ok", net |-> "none"]
    /\ res.MemUsageRate = 2 /\ res.DiskUsageRate = 2 /\ res.CPUUsageRate = 0
    /\ res.NetworkTraffic = NilSlice

\* C23 (configuration ranges): when LoadConfig has returned nil, every numeric
\* setting lies in its documented range, and a setting the file gave outside
\* its documented range holds its documented default.
C23_ConfigRanges ==
    (pcC = "loaded" /\ loadErr = "nil") =>
        \A f \in Settings :
            /\ Conf[f] >= Documented[f].min /\ Conf[f] <= Documented[f].max
            /\ (yaml[f] # <<>> /\ (yaml[f][1] < Documented[f].min
                                   \/ yaml[f][1] > Documented[f].max))
                  => Conf[f] = Documented[f].def

\* LoadConfig has returned nil on a file with port: 0 and shutdownTimeout: 0,
\* and Conf holds both zeros
C23_Witness ==
    /\ pcC = "loaded" /\ loadErr = "nil"
    /\ yaml.Port = <<0>> /\ yaml.ShutdownTimeout = <<0>>
    /\ Conf.Port = 0 /\ Conf.ShutdownTimeout = 0

\* the one cycle that can still publish once ctx is cancelled: the cycle in
\* flight at the cancellation, or else the cycle after the last one
LastCycle ==
    IF cancelAt.pc \in {"launch", "join", "publish"}
      THEN cancelAt.cycle
      ELSE cancelAt.cycle + 1

\* C24 (at most one publish after cancellation): once ctx is cancelled no
\* cycle beyond LastCycle begins, and a publish that completes after the
\* cancellation is the publish of LastCycle, so there is at most one; and
\* once the loop has returned nothing more is published.
C24_OnePublishAfterCancel ==
    /\ [](cancelled => cycle <= LastCycle)
    /\ [][(cancelled /\ npub' # npub) => (npub' = npub + 1 /\ npub' = LastCycle)]_vars
    /\ [][pcL = "done" => npub' = npub]_vars

\* ctx was cancelled while the loop waited after its first cycle; the timed
\* wait won the race, the second cycle ran and published, and the loop returned
C24_Witness ==
    /\ pcL = "done"
    /\ cancelAt = [pc |-> "wait", cycle |-> 1]
    /\ cycle = 2
    /\ npub = 2
    /\ pcW = "idle"

\* C25 (store lock discipline): the write lock is never held together with a
\* read lock, while the read lock may be held by several readers; the write
\* lock is held exactly inside SetGlobalResource and a read lock exactly
\* inside the reader's GetGlobalResource, so both are released on return; and
\* with a fair mutex every SetGlobalResource and GetGlobalResource call returns.
C25_LockDiscipline ==
    /\ [](/\ ~(mutexW /\ mutexR # {})
          /\ mutexW <=> pcW \in {"eval", "store", "unlock"}
          /\ \A r \in Readers : r \in mutexR <=> pcR[r] \in {"read", "runlock"})
    /\ (pcW = "lock") ~> (pcW = "idle")
    /\ \A r \in Readers : (pcR[r] = "rlock") ~> (pcR[r] = "done")

\* every reader holds the read lock, in the middle of its copy, while the
\* publisher of the second snapshot waits in Lock()
C25_Witness ==
    /\ mutexR = Readers
    /\ \A r \in Readers : pcR[r] = "read"
    /\ pcW = "lock"
    /\ npub = 1

\* the positions of start from gm.StartAll() on, in program order
BootOrder == <<"startall", "sigwait", "finalization", "stopwait", "finlog", "exit">>

BootRank(pc) == CHOOSE i \in 1..Len(BootOrder) : BootOrder[i] = pc

\* C26 (shutdown ordering): from gm.StartAll() on, start moves through its
\* positions in order, one at a time, so each call is made once; it leaves its
\* signal wait only by taking SIGINT, SIGTERM or SIGUSR1 from sigChan; the
\* context is cancelled only by the gm.StopAll call that follows, with the
\* tasks started, and stays cancelled; and the subscription of sigChan ends
\* only in the last step, after StopAll has returned and with the logger's
\* finalization.
C26_ShutdownOrdering ==
    /\ [](/\ pcB \in {"stopwait", "finlog"} => (gmCancelled /\ subscribed)
          /\ (pcB = "exit" /\ runs["server"] > 0) => (gmCancelled /\ ~subscribed)
          /\ pcB \in {"startall", "sigwait", "finalization"} => (~gmCancelled /\ subscribed))
    /\ [][/\ (pcB' # pcB /\ pcB \in {BootOrder[i] : i \in 1..Len(BootOrder)}) =>
                BootRank(pcB') = BootRank(pcB) + 1
          /\ (pcB = "sigwait" /\ pcB' # pcB) =>
                /\ sigChan # <<>>
                /\ Head(sigChan) \in {"SIGINT", "SIGTERM", "SIGUSR1"}
                /\ sigChan' = Tail(sigChan)
          /\ gmCancelled' # gmCancelled =>
                (pcB = "finalization" /\ pcB' = "stopwait" /\ runs["server"] = 1)
          /\ subscribed /\ ~subscribed' => (pcB = "finlog" /\ pcB' = "exit")
         ]_vars

\* start has returned after a SIGTERM: StopAll had timed out with the server
\* still waiting on its context, and the subscription is released
C26_Witness ==
    /\ pcB = "exit"
    /\ gmCancelled
    /\ ~subscribed
    /\ runs["server"] = 1
    /\ pcS = "ctxwait"
    /\ handled = 0
    /\ listener = "serving"

\* a step of the loop, of its publish or of one of its sampler calls
Progress ==
    LoopStart \/ CollectResource \/ SetGlobalResource \/ \E t \in threads : Sampler(t)

\* CollectResource has returned and has left nothing running
Returned == pcL = "done" /\ threads = {} /\ pcW = "idle"

\* the steps the sampler of kind KindOrder[i] has left in the current cycle:
\* its counter reads when it runs or is still to be launched
SamplerSteps(i) ==
    LET k == KindOrder[i]
        ts == {t \in threads : t.kind = k} IN
    IF ts # {} THEN Reads(k) - (CHOOSE t \in ts : TRUE).reads
    ELSE IF pcL = "launch" /\ i >= li THEN Reads(k) ELSE 0

RECURSIVE SamplerStepsTo(_)
SamplerStepsTo(i) == IF i = 0 THEN 0 ELSE SamplerSteps(i) + SamplerStepsTo(i - 1)

\* the steps SetGlobalResource has left in the current cycle: Lock, the
\* literal, one store per field, Unlock
PublishSteps ==
    CASE pcW = "lock" -> Len(FieldOrder) + 3
      [] pcW = "eval" -> Len(FieldOrder) + 2
      [] pcW = "store" -> Len(FieldOrder) - wi + 2
      [] pcW = "unlock" -> 1
      [] pcW = "idle" -> IF pcL \in {"launch", "join"} THEN Len(FieldOrder) + 3 ELSE 0

\* the steps of the loop itself up to its return through a cancelled wait
LoopSteps ==
    CASE pcL = "done" -> 0
      [] pcL = "wait" -> 1
      [] pcL = "enter" -> 2
      [] pcL = "publish" -> 3
      [] pcL = "join" -> 4
      [] pcL = "launch" -> 5 + Len(KindOrder) - li
      [] pcL = "idle" -> 3

\* more steps than one whole cycle takes
CycleSteps == 3 * Len(KindOrder) + Len(FieldOrder) + 9

\* with ctx cancelled, the wait can still let one cycle begin: the zero wait
\* before the first cycle, or a wait that began before the cancellation
OneMoreCycle ==
    \/ pcL = "idle"
    \/ pcL = "enter" /\ timeout = 0
    \/ pcL = "wait" /\ (~enteredCancelled \/ timeout = 0)

\* a bound on the steps left before CollectResource has returned
StepsLeft ==
    (IF OneMoreCycle THEN CycleSteps ELSE 0)
        + LoopSteps + SamplerStepsTo(Len(KindOrder)) + PublishSteps

\* C27 (loop termination): once ctx is cancelled and until CollectResource has
\* returned, the loop, its publish or a sampler call can always take a step
\* (nothing blocks for good in wg.Wait() or in the timed wait), and every step
\* lowers StepsLeft, a natural number; so with the goroutines scheduled and
\* every sampler call returning, CollectResource returns.
C27_LoopTermination ==
    /\ []((cancelled /\ ~Returned) => ENABLED Progress)
    /\ [](StepsLeft \in Nat)
    /\ [][cancelled => StepsLeft' < StepsLeft]_vars

\* ctx was cancelled while the second cycle launched its samplers; they all
\* returned, the net one with an error, the cycle published and the loop returned
C27_Witness ==
    /\ pcL = "done"
    /\ cancelAt = [pc |-> "launch", cycle |-> 2]
    /\ threads = {}
    /\ outcome["net"] = "err"
    /\ npub = 2

====
